---- MODULE Spec2Model ----
(***************************************************************************)
(* City Pulse: the trend list of a region (src/app/routers/trends.py) and  *)
(* the stores it reads (events, likes, comments, attendance marks).        *)
(*                                                                         *)
(* The database is the SQLite file of src/app/config.py:18 (init_db uses   *)
(* SQLite-only SQL, database.py:101): a table's integer primary key is the *)
(* rowid, so a new row gets max(id) + 1, a SELECT without ORDER BY over    *)
(* one region returns rows by ascending id, and at most one connection     *)
(* holds the write lock between its first write and its commit.            *)
(***************************************************************************)
EXTENDS Integers, Sequences, FiniteSets, TLC

\* ---- bounds of the exploration ----
MaxUsers == 1
MaxEvents == 2
MaxInter == 2
MaxTime == 1
MaxConcTime == 0

\* ---- program constants ----
REGION_SAN_DIEGO_ID == 0

\* users .. trends are the committed tables; last is the response of the last
\* trends request; sess, lock, pending and origin describe the open sessions of
\* the requests that run side by side (SpecConc)
VARIABLES users, events, likes, attending, comments, trends, last,
          sess, lock, pending, origin

vars == <<users, events, likes, attending, comments, trends, last,
          sess, lock, pending, origin>>
svars == <<sess, lock, pending, origin>>

SessIds == 1 .. 2

UserIds == 0 .. (MaxUsers - 1)
EventIds == 1 .. MaxEvents
Times == 0 .. MaxTime

\* ---- helpers over sets of integers ----
Max(S) == CHOOSE m \in S : \A x \in S : x <= m

\* func.max(col) + 1 over a possibly empty table when the first id is `first`
NextId(S, first) == IF S = {} THEN first ELSE Max(S) + 1

\* the elements of a set of integers in ascending order (rowid scan order)
RECURSIVE AscSeq(_)
AscSeq(S) ==
    IF S = {} THEN <<>>
    ELSE LET m == Max(S) IN Append(AscSeq(S \ {m}), m)

\* ---- region tokens (region_map.py) ----
\* a token is <<"int", n>> or <<"str", characters>>
Chars(s) == <<"str", s>>
WhiteSpace == {" ", "\t"}
LowerOf(c) ==
    CASE c = "S" -> "s" [] c = "A" -> "a" [] c = "N" -> "n" [] c = "D" -> "d"
      [] c = "I" -> "i" [] c = "E" -> "e" [] c = "G" -> "g" [] c = "O" -> "o"
      [] c = "L" -> "l" [] OTHER -> c

RECURSIVE LStrip(_)
LStrip(s) == IF s # <<>> /\ Head(s) \in WhiteSpace THEN LStrip(Tail(s)) ELSE s
RECURSIVE RStrip(_)
RStrip(s) ==
    IF s # <<>> /\ s[Len(s)] \in WhiteSpace THEN RStrip(SubSeq(s, 1, Len(s) - 1)) ELSE s
Strip(s) == RStrip(LStrip(s))
\* (a variant that leaves the case as it is)
KeepCase(s) == s
Lower(s) == [i \in 1 .. Len(s) |-> LowerOf(s[i])]
ReplaceDash(s) == [i \in 1 .. Len(s) |-> IF s[i] = "-" THEN " " ELSE s[i]]

InvalidRegion == -1   \* stands for the ValueError of parse_region_param

\* (a variant that takes every token for the one region)
ParseAnyRegion(value) == REGION_SAN_DIEGO_ID
parse_region_param(value) ==
    IF value[1] = "int"
    THEN IF value[2] = REGION_SAN_DIEGO_ID THEN value[2] ELSE InvalidRegion
    ELSE LET s == Lower(Strip(value[2])) IN
         IF s = <<"0">> THEN REGION_SAN_DIEGO_ID
         ELSE IF ReplaceDash(s) = <<"s", "a", "n", " ", "d", "i", "e", "g", "o">>
              THEN REGION_SAN_DIEGO_ID
              ELSE InvalidRegion

RegionTokens ==
    { Chars(<<" ", "S", "a", "n", "-", "D", "i", "e", "g", "o", " ">>),
      Chars(<<"l", "a">>) }

\* ---- the ordering policy (trends.py) ----
\* item = <<event_id, att, com, lik>>
\* (a variant with the priorities reversed: likes, then comments, then attendance)
OrderKeyLikesFirst(item) == << 0 - item[4], 0 - item[3], 0 - item[2] >>
\* (-att, -com, -lik): attendance first, then comments, then likes
_order_key(item) == << 0 - item[2], 0 - item[3], 0 - item[4] >>

\* Python's comparison of two 3-tuples of integers
TupleLess(a, b) ==
    \/ a[1] < b[1]
    \/ a[1] = b[1] /\ a[2] < b[2]
    \/ a[1] = b[1] /\ a[2] = b[2] /\ a[3] < b[3]

\* list.sort / sorted with key=: the key of each element is computed once,
\* the elements are ordered by key ascending, and elements of equal key keep
\* their order (the sort is stable).  keyed[i] = <<key, element>>.
\* (a variant that is not stable: an element goes before the elements of equal key)
RECURSIVE SortKeyedTiesReversed(_, _)
SortKeyedTiesReversed(keyed, n) ==
    IF n = 0 THEN <<>>
    ELSE LET prev == SortKeyedTiesReversed(keyed, n - 1)
             x == keyed[n]
             k == Cardinality({ i \in 1 .. Len(prev) : TupleLess(prev[i][1], x[1]) })
         IN SubSeq(prev, 1, k) \o <<x>> \o SubSeq(prev, k + 1, Len(prev))
RECURSIVE SortKeyed(_, _)
SortKeyed(keyed, n) ==
    IF n = 0 THEN <<>>
    ELSE LET prev == SortKeyed(keyed, n - 1)
             x == keyed[n]
             k == Cardinality({ i \in 1 .. Len(prev) : ~TupleLess(x[1], prev[i][1]) })
         IN SubSeq(prev, 1, k) \o <<x>> \o SubSeq(prev, k + 1, Len(prev))

\* keys[i] is the key of s[i]
StableSort(s, keys) ==
    LET sorted == SortKeyed([i \in 1 .. Len(s) |-> << keys[i], s[i] >>], Len(s))
    IN [p \in 1 .. Len(s) |-> sorted[p][2]]

\* ---- live interaction counts ----
EventIdsOf(E) == { e.id : e \in E }
EventsInRegion(E, region_id) == { e.id : e \in { x \in E : x.region_id = region_id } }

\* (a variant that counts the users who interacted instead of the records)
CountDistinctUsers(S, eid) == Cardinality({ r.user_id : r \in { x \in S : x.event_id = eid } })
CountFor(S, eid) == Cardinality({ r \in S : r.event_id = eid })

\* the dict of _get_event_interaction_counts as the sequence of its items
\* <<event_id, att, com, lik>> in insertion order
\* (a variant that leaves out the events without any interaction)
CountsOfActiveEvents(E, A, C, L, region_id) ==
    LET active == { eid \in EventsInRegion(E, region_id) :
                      CountFor(A, eid) + CountFor(C, eid) + CountFor(L, eid) > 0 }
        event_ids == AscSeq(active) IN
    IF event_ids = <<>> THEN <<>>
    ELSE [i \in 1 .. Len(event_ids) |->
            << event_ids[i], CountFor(A, event_ids[i]), CountFor(C, event_ids[i]),
               CountFor(L, event_ids[i]) >>]
\* every event of the region, (0, 0, 0) for one nobody interacted with
_get_event_interaction_counts(E, A, C, L, region_id) ==
    LET event_ids == AscSeq(EventsInRegion(E, region_id)) IN
    IF event_ids = <<>> THEN <<>>
    ELSE [i \in 1 .. Len(event_ids) |->
            << event_ids[i], CountFor(A, event_ids[i]), CountFor(C, event_ids[i]),
               CountFor(L, event_ids[i]) >>]

\* counts.get(event_id, (0, 0, 0))
DictGet(counts, eid) ==
    IF \E i \in 1 .. Len(counts) : counts[i][1] = eid
    THEN LET i == CHOOSE i \in 1 .. Len(counts) : counts[i][1] = eid
         IN << counts[i][2], counts[i][3], counts[i][4] >>
    ELSE << 0, 0, 0 >>

\* ---- the trends table ----
TrendRow(id, region_id, event_id, rank, att, com, lik, updated_at) ==
    [ id |-> id, region_id |-> region_id, event_id |-> event_id, rank |-> rank,
      attendance_count |-> att, comments_count |-> com, likes_count |-> lik,
      updated_at |-> updated_at ]

TrendIds(T) == { t.id : t \in T }
RegionRows(T, region_id) == { t \in T : t.region_id = region_id }

\* (a variant of the DELETE that removes nothing)
DeleteNothing(T, region_id) == T
\* delete(Trend).where(Trend.region_id == region_id)
DeleteRegionTrends(T, region_id) == { t \in T : t.region_id # region_id }

\* the rows rebuild_trends adds and flushes, in rank order
InsertRanked(T, region_id, sorted_events, now) ==
    LET base == NextId(TrendIds(T), 1) IN
    T \cup { TrendRow(base + rank - 1, region_id, sorted_events[rank][1], rank,
                      sorted_events[rank][2], sorted_events[rank][3],
                      sorted_events[rank][4], now)
             : rank \in 1 .. Len(sorted_events) }

\* sorted(..., key=_order_key) of rebuild_trends
SortedEvents(counts) ==
    StableSort(counts, [i \in 1 .. Len(counts) |-> _order_key(counts[i])])

\* select(Trend).where(region, event) .scalar_one_or_none()
ExistingTrend(T, region_id, event_id) ==
    { t \in T : t.region_id = region_id /\ t.event_id = event_id }

\* coalesce(max(Trend.rank), 0) + 1
NextRank(T, region_id) ==
    LET R == { t.rank : t \in RegionRows(T, region_id) } IN
    (IF R = {} THEN 0 ELSE Max(R)) + 1

\* the possible results of SELECT ... ORDER BY rank: every arrangement of the
\* rows with non-decreasing rank (rows of equal rank come in any order)
RECURSIVE RankOrders(_)
RankOrders(R) ==
    IF R = {} THEN { <<>> }
    ELSE UNION { { <<t>> \o s : s \in RankOrders(R \ {t}) }
                 : t \in { x \in R : \A y \in R : x.rank <= y.rank } }

\* (a variant of the key of update_trends: likes first, then comments, then attendance)
RowKeyLikesFirst(t) == << -t.likes_count, -t.comments_count, -t.attendance_count >>
RowKey(t) == _order_key(<< t.event_id, t.attendance_count, t.comments_count, t.likes_count >>)

\* the first flush of update_trends on a loaded row: UPDATE by primary key of
\* the columns whose value differs from the value loaded (the ORM leaves an
\* attribute set to its loaded value out of the statement); updated_at, a
\* fresh clock reading, is always written.  loaded is the row as it was read.
\* (first a variant that writes the timestamp and leaves the counts)
UpsertUpdateStale(T, loaded, cnt, now) ==
    { IF t.id = loaded.id THEN [t EXCEPT !.updated_at = now] ELSE t : t \in T }
UpsertUpdate(T, loaded, cnt, now) ==
    { IF t.id = loaded.id
      THEN [t EXCEPT !.attendance_count = IF cnt[1] # loaded.attendance_count THEN cnt[1] ELSE @,
                     !.comments_count = IF cnt[2] # loaded.comments_count THEN cnt[2] ELSE @,
                     !.likes_count = IF cnt[3] # loaded.likes_count THEN cnt[3] ELSE @,
                     !.updated_at = now]
      ELSE t : t \in T }

UpsertInsert(T, region_id, event_id, next_rank, cnt, now) ==
    T \cup { TrendRow(NextId(TrendIds(T), 1), region_id, event_id, next_rank,
                      cnt[1], cnt[2], cnt[3], now) }

\* re-read, sort and renumber of update_trends.  order is the result of the
\* SELECT; a row whose primary key is obj's is represented by obj (the session
\* keeps the object it already holds), every other row is loaded as stored.
\* Setting t.rank to the value the object already has emits no UPDATE.
\* (first a variant that numbers the rows in the order read, without sorting)
RenumberAsRead(T, region_id, obj, order) ==
    { t \in T : t.region_id # region_id }
       \cup { [order[p] EXCEPT !.rank = p] : p \in 1 .. Len(order) }
\* (a variant whose rank UPDATE also stamps the row with the clock reading of
\* the upserted row, as a column with an onupdate default would)
RenumberStamps(T, region_id, obj, order) ==
    LET mem(t) == IF t.id = obj.id THEN obj ELSE t
        rows == StableSort(order, [i \in 1 .. Len(order) |-> RowKey(mem(order[i]))])
    IN { t \in T : t.region_id # region_id }
       \cup { IF mem(rows[p]).rank = p THEN rows[p]
              ELSE [rows[p] EXCEPT !.rank = p, !.updated_at = obj.updated_at]
              : p \in 1 .. Len(rows) }
Renumber(T, region_id, obj, order) ==
    LET mem(t) == IF t.id = obj.id THEN obj ELSE t
        rows == StableSort(order, [i \in 1 .. Len(order) |-> RowKey(mem(order[i]))])
    IN { t \in T : t.region_id # region_id }
       \cup { IF mem(rows[p]).rank = p THEN rows[p] ELSE [rows[p] EXCEPT !.rank = p]
              : p \in 1 .. Len(rows) }

\* ---- the response of the last trends request; a successful write of
\* another router resets it, and the responses of the other routers are
\* not recorded ----
\* region is the region token of the request, rank its payload.rank, skip and
\* limit the page asked of get_trends and rows the list get_trends returned
NoToken == << "none", 0 >>
Other == [ op |-> "other", status |-> 0, event_id |-> 0, count |-> 0,
           now |-> 0, flag |-> FALSE, region |-> NoToken, rank |-> 0,
           skip |-> 0, limit |-> 0, rows |-> << >> ]

\* now is the clock reading of the request; flag records, for rebuild_trends,
\* that the request before it was a rebuild_trends too, and for update_trends,
\* that the event had a Trend row when the request arrived
Resp(op, status, event_id, count, now, flag) ==
    [ Other EXCEPT !.op = op, !.status = status, !.event_id = event_id,
                   !.count = count, !.now = now, !.flag = flag ]

\* ---- sessions (database.py get_db) ----
\* a session is the state of one trends request between its statements:
\* pc is the statement it has reached, existing what its SELECT of the row
\* returned, next_rank what its SELECT of the highest rank returned, wrote
\* whether it has sent a write statement, status its response
NoSession ==
    [ pc |-> "idle", op |-> "none", region_id |-> 0, event_id |-> 0, existing |-> {},
      next_rank |-> 0, wrote |-> FALSE, status |-> 0 ]

Init ==
    /\ users = {}
    /\ events = {}
    /\ likes = {}
    /\ attending = {}
    /\ comments = {}
    /\ trends = {}
    /\ last = Other
    /\ sess = [s \in SessIds |-> NoSession]
    /\ lock = 0
    /\ pending = {}
    /\ origin = {}

\* ---- users.py ----
\* city_location_to_region_id: strip, lower, '-' -> ' ', must be 'san diego'
city_location_to_region_id(city_location) ==
    IF ReplaceDash(Lower(Strip(city_location[2]))) = <<"s", "a", "n", " ", "d", "i", "e", "g", "o">>
    THEN REGION_SAN_DIEGO_ID
    ELSE InvalidRegion

CityTokens == { t \in RegionTokens : t[1] = "str" }

UserIdsOf(U) == { u.id : u \in U }

\* POST /api/users (name, email and password are not part of the state; every
\* request is taken to carry an unused email)
create_user ==
    \E city_location \in CityTokens :
        LET region_id == city_location_to_region_id(city_location)
            next_id == NextId(UserIdsOf(users), 0)
        IN /\ next_id < MaxUsers
           /\ IF region_id = InvalidRegion
              THEN /\ last' = last
                   /\ UNCHANGED users
              ELSE /\ users' = users \cup { [id |-> next_id, region_id |-> region_id] }
                   /\ last' = Other
           /\ UNCHANGED <<events, likes, attending, comments, trends>>

\* rows removed with a set of events: ON DELETE CASCADE of event_id and the
\* ORM cascade of Event.likes / comments / attending / trend_entries
\* (a variant of the cascade that removes nothing)
KeepsOrphans(S, gone) == S
WithoutEvents(S, gone) == { r \in S : r.event_id \notin gone }
WithoutUser(S, uid) == { r \in S : r.user_id # uid }

\* DELETE /api/users/{id}
delete_user ==
    \E id \in UserIds :
        IF id \notin UserIdsOf(users)
        THEN /\ last' = last
             /\ UNCHANGED <<users, events, likes, attending, comments, trends>>
        ELSE LET gone == { e.id : e \in { x \in events : x.user_id = id } } IN
             /\ events' = { e \in events : e.user_id # id }
             /\ users' = { u \in users : u.id # id }
             /\ likes' = WithoutUser(WithoutEvents(likes, gone), id)
             /\ attending' = WithoutUser(WithoutEvents(attending, gone), id)
             /\ comments' = WithoutUser(WithoutEvents(comments, gone), id)
             /\ trends' = WithoutEvents(trends, gone)
             /\ last' = Other

\* ---- events.py ----
\* POST /api/events
create_event ==
    \E user_id \in UserIds :
        LET next_id == NextId(EventIdsOf(events), 1) IN
        /\ next_id <= MaxEvents
        /\ IF user_id \notin UserIdsOf(users)
           THEN /\ last' = last
                /\ UNCHANGED events
           ELSE LET user == CHOOSE u \in users : u.id = user_id IN
                IF user.region_id # REGION_SAN_DIEGO_ID
                THEN /\ last' = last
                     /\ UNCHANGED events
                ELSE /\ events' = events \cup
                          { [id |-> next_id, region_id |-> user.region_id, user_id |-> user.id] }
                     /\ last' = Other
        /\ UNCHANGED <<users, likes, attending, comments, trends>>

\* DELETE /api/events/{id}
delete_event ==
    \E id \in EventIds :
        IF id \notin EventIdsOf(events)
        THEN /\ last' = last
             /\ UNCHANGED <<users, events, likes, attending, comments, trends>>
        ELSE /\ events' = { e \in events : e.id # id }
             /\ likes' = WithoutEvents(likes, {id})
             /\ attending' = WithoutEvents(attending, {id})
             /\ comments' = WithoutEvents(comments, {id})
             /\ trends' = WithoutEvents(trends, {id})
             /\ last' = Other
             /\ UNCHANGED users

\* ---- interactions.py ----
InterCount == Cardinality(likes) + Cardinality(attending) + Cardinality(comments)

Pair(user_id, event_id) == [user_id |-> user_id, event_id |-> event_id]

\* PUT /events/{event_id}/likes and /attending share one shape: 404 without
\* the event, success without a write when the pair is there, else an INSERT
\* (a foreign-key error, hence 500 and a rollback, when the user is unknown)
AddPair(S, event_id, user_id) ==
    IF event_id \notin EventIdsOf(events) THEN [status |-> 404, rows |-> S]
    ELSE IF Pair(user_id, event_id) \in S THEN [status |-> 200, rows |-> S]
    ELSE IF user_id \notin UserIdsOf(users) THEN [status |-> 500, rows |-> S]
    ELSE [status |-> 200, rows |-> S \cup { Pair(user_id, event_id) }]

\* (a variant of PUT /likes that also adds the like to the snapshot of the
\* event's Trend row)
add_like_counted ==
    \E event_id \in EventIds, user_id \in UserIds :
        LET r == AddPair(likes, event_id, user_id) IN
        /\ r.rows # likes => InterCount < MaxInter
        /\ likes' = r.rows
        /\ trends' = { IF t.event_id = event_id /\ r.rows # likes
                       THEN [t EXCEPT !.likes_count = @ + 1] ELSE t : t \in trends }
        /\ last' = (IF r.status < 400 /\ r.rows # likes THEN Other ELSE last)
        /\ UNCHANGED <<users, events, attending, comments>>
add_like ==
    \E event_id \in EventIds, user_id \in UserIds :
        LET r == AddPair(likes, event_id, user_id) IN
        /\ r.rows # likes => InterCount < MaxInter
        /\ likes' = r.rows
        /\ last' = (IF r.status < 400 /\ r.rows # likes THEN Other ELSE last)
        /\ UNCHANGED <<users, events, attending, comments, trends>>

add_attending ==
    \E event_id \in EventIds, user_id \in UserIds :
        LET r == AddPair(attending, event_id, user_id) IN
        /\ r.rows # attending => InterCount < MaxInter
        /\ attending' = r.rows
        /\ last' = (IF r.status < 400 /\ r.rows # attending THEN Other ELSE last)
        /\ UNCHANGED <<users, events, likes, comments, trends>>

\* PUT /events/{event_id}/comments
add_comment ==
    \E event_id \in EventIds, user_id \in UserIds :
        /\ IF event_id \notin EventIdsOf(events)
           THEN /\ last' = last
                /\ UNCHANGED comments
           ELSE IF user_id \notin UserIdsOf(users)
           THEN /\ last' = last
                /\ UNCHANGED comments
           ELSE /\ InterCount < MaxInter
                /\ comments' = comments \cup
                      { [id |-> NextId({ c.id : c \in comments }, 1),
                         user_id |-> user_id, event_id |-> event_id] }
                /\ last' = Other
        /\ UNCHANGED <<users, events, likes, attending, trends>>

\* DELETE /events/{event_id}/likes and /attending
RemovePair(S, event_id, user_id) ==
    IF Pair(user_id, event_id) \notin S THEN [status |-> 404, rows |-> S]
    ELSE [status |-> 200, rows |-> S \ { Pair(user_id, event_id) }]

remove_like ==
    \E event_id \in EventIds, user_id \in UserIds :
        LET r == RemovePair(likes, event_id, user_id) IN
        /\ likes' = r.rows
        /\ last' = (IF r.status < 400 /\ r.rows # likes THEN Other ELSE last)
        /\ UNCHANGED <<users, events, attending, comments, trends>>

remove_attending ==
    \E event_id \in EventIds, user_id \in UserIds :
        LET r == RemovePair(attending, event_id, user_id) IN
        /\ attending' = r.rows
        /\ last' = (IF r.status < 400 /\ r.rows # attending THEN Other ELSE last)
        /\ UNCHANGED <<users, events, likes, comments, trends>>

\* DELETE /events/{event_id}/comments/{comment_id}
remove_comment ==
    \E event_id \in EventIds, comment_id \in 1 .. MaxInter, user_id \in UserIds :
        LET found == { c \in comments : c.id = comment_id } IN
        /\ IF found = {} \/ (\E c \in found : c.event_id # event_id)
           THEN /\ last' = last
                /\ UNCHANGED comments
           ELSE IF \E c \in found : c.user_id # user_id
           THEN /\ last' = last
                /\ UNCHANGED comments
           ELSE /\ comments' = comments \ found
                /\ last' = Other
        /\ UNCHANGED <<users, events, likes, attending, trends>>

\* ---- trends.py, each request as one transaction ----
\* the rows rebuild_trends leaves: DELETE of the region, then the ranked INSERTs
\* (first a variant that returns early, without the DELETE, when there is no event)
RebuildRowsKeepsStale(T, counts, region_id, now) ==
    IF counts = <<>> THEN T
    ELSE InsertRanked(DeleteRegionTrends(T, region_id), region_id, SortedEvents(counts), now)
RebuildRows(T, counts, region_id, now) ==
    IF counts = <<>> THEN DeleteRegionTrends(T, region_id)
    ELSE InsertRanked(DeleteRegionTrends(T, region_id), region_id, SortedEvents(counts), now)

\* (a variant of POST /api/trends that, once counted, clears the likes of the
\* events it ranks)
rebuild_trends_consumes ==
    \E region \in RegionTokens :
        LET region_id == parse_region_param(region) IN
        IF region_id = InvalidRegion
        THEN /\ last' = [Resp("rebuild_trends", 400, 0, 0, 0, FALSE) EXCEPT !.region = region]
             /\ UNCHANGED <<users, events, likes, attending, comments, trends>>
        ELSE LET counts == _get_event_interaction_counts(events, attending, comments,
                                                          likes, region_id) IN
             \E now \in Times :
                /\ trends' = RebuildRows(trends, counts, region_id, now)
                /\ likes' = WithoutEvents(likes, EventsInRegion(events, region_id))
                /\ last' = [Resp("rebuild_trends", 201, 0, Len(counts), now,
                                  last.op = "rebuild_trends" /\ last.status = 201)
                             EXCEPT !.region = region]
                /\ UNCHANGED <<users, events, attending, comments>>
\* POST /api/trends
rebuild_trends ==
    \E region \in RegionTokens :
        LET region_id == parse_region_param(region) IN
        IF region_id = InvalidRegion
        THEN /\ last' = [Resp("rebuild_trends", 400, 0, 0, 0, FALSE) EXCEPT !.region = region]
             /\ UNCHANGED <<users, events, likes, attending, comments, trends>>
        ELSE LET counts == _get_event_interaction_counts(events, attending, comments,
                                                          likes, region_id) IN
             \E now \in Times :
                /\ trends' = RebuildRows(trends, counts, region_id, now)
                /\ last' = [Resp("rebuild_trends", 201, 0, Len(counts), now,
                                  last.op = "rebuild_trends" /\ last.status = 201)
                             EXCEPT !.region = region]
                /\ UNCHANGED <<users, events, likes, attending, comments>>

\* lines 155-174 of update_trends on table T: existing is what the SELECT of
\* the row returned (a set with at most one row), next_rank what the SELECT of
\* the highest rank gave.  The result is the object the session holds after
\* the flush and the table then.
Flush(T, region_id, event_id, existing, next_rank, cnt, now) ==
    IF existing # {}
    THEN LET trend_row == CHOOSE t \in existing : TRUE
             obj == [trend_row EXCEPT !.attendance_count = cnt[1], !.comments_count = cnt[2],
                                      !.likes_count = cnt[3], !.updated_at = now]
         IN [obj |-> obj, rows |-> UpsertUpdate(T, trend_row, cnt, now)]
    ELSE LET T1 == UpsertInsert(T, region_id, event_id, next_rank, cnt, now)
         IN [obj |-> CHOOSE t \in T1 \ T : TRUE, rows |-> T1]

\* (a variant that never looks for the event's row and always inserts)
UpsertAlwaysInsert(T, region_id, event_id, cnt, now) ==
    LET T1 == UpsertInsert(T, region_id, event_id, NextRank(T, region_id), cnt, now)
    IN [obj |-> CHOOSE t \in T1 \ T : TRUE, rows |-> T1]
\* Flush with the lookups done on T itself: one request running alone
Upsert(T, region_id, event_id, cnt, now) ==
    Flush(T, region_id, event_id, ExistingTrend(T, region_id, event_id),
          NextRank(T, region_id), cnt, now)

\* (a variant that keeps, of the region, only the row just written, at rank 1)
ReorderKeepsWritten(up, region_id) ==
    { { t \in up.rows : t.region_id # region_id } \cup { [up.obj EXCEPT !.rank = 1] } }
\* read, sort and renumber after the flush: the tables update_trends can leave
\* (a variant that leaves every row at the rank it has after the flush)
ReorderSkipped(up, region_id) == { up.rows }
Reorder(up, region_id) ==
    { Renumber(up.rows, region_id, up.obj, order)
      : order \in RankOrders(RegionRows(up.rows, region_id)) }

\* payload.rank: 0 stands for an omitted rank
RankInputs == {0, 2}

\* (a variant of the check that lets every event_id pass)
EventAlwaysFound(E, event_id, region_id) == FALSE
\* event = await db.get(Event, event_id); not event or event.region_id != region_id
EventNotFound(E, event_id, region_id) ==
    \A e \in E : e.id = event_id => e.region_id # region_id

\* (a variant that moves the event's row to the rank the payload asks for)
UpdateRowsAtRank(T, counts, region_id, event_id, rank, now) ==
    LET up == Upsert(T, region_id, event_id, DictGet(counts, event_id), now)
        others == { t \in RegionRows(up.rows, region_id) : t.id # up.obj.id }
    IN IF rank = 0 THEN Reorder(up, region_id)
       ELSE { { t \in up.rows : t.region_id # region_id }
              \cup { [up.obj EXCEPT !.rank = rank] }
              \cup { [t EXCEPT !.rank = IF t.rank >= rank THEN t.rank + 1 ELSE t.rank]
                     : t \in others } }
\* (a variant that first inserts a row for every event of the region that has none)
RECURSIVE InsertMissing(_, _, _, _, _)
InsertMissing(T, counts, n, region_id, now) ==
    IF n = 0 THEN T
    ELSE LET T1 == InsertMissing(T, counts, n - 1, region_id, now)
             c == counts[n]
         IN IF ExistingTrend(T1, region_id, c[1]) # {} THEN T1
            ELSE UpsertInsert(T1, region_id, c[1], NextRank(T1, region_id),
                              << c[2], c[3], c[4] >>, now)
UpdateRowsFillsIn(T, counts, region_id, event_id, rank, now) ==
    Reorder(Upsert(InsertMissing(T, counts, Len(counts), region_id, now), region_id, event_id,
                   DictGet(counts, event_id), now), region_id)
\* the tables update_trends can leave (lines 148-183); payload.rank is
\* accepted and never read
UpdateRows(T, counts, region_id, event_id, rank, now) ==
    Reorder(Upsert(T, region_id, event_id, DictGet(counts, event_id), now), region_id)

\* PUT /api/trends
update_trends ==
    \E region \in RegionTokens :
        LET region_id == parse_region_param(region) IN
        IF region_id = InvalidRegion
        THEN /\ last' = [Resp("update_trends", 400, 0, 0, 0, FALSE) EXCEPT !.region = region]
             /\ UNCHANGED <<users, events, likes, attending, comments, trends>>
        ELSE LET counts == _get_event_interaction_counts(events, attending, comments,
                                                          likes, region_id) IN
             \E event_id \in EventIds :
                IF EventNotFound(events, event_id, region_id)
                THEN /\ last' = [Resp("update_trends", 404, event_id, 0, 0, FALSE)
                                 EXCEPT !.region = region]
                     /\ UNCHANGED <<users, events, likes, attending, comments, trends>>
                ELSE \E now \in Times :
                     \E rank \in RankInputs :
                     \E rows \in UpdateRows(trends, counts, region_id, event_id, rank, now) :
                           /\ trends' = rows
                           /\ last' = [Resp("update_trends", 200, event_id, 0, now,
                                         ExistingTrend(trends, region_id, event_id) # {})
                                    EXCEPT !.region = region, !.rank = rank]
                           /\ UNCHANGED <<users, events, likes, attending, comments>>

\* ---- GET /api/trends ----
\* Query(0, ge=0) and Query(50, ge=1, le=100)
SkipInputs == {0, 1}
LimitInputs == {1, 2}

\* .join(Event, Event.id == Trend.event_id): the rows whose event is stored
JoinEvent(T, E) == { t \in T : t.event_id \in EventIdsOf(E) }

\* TrendEntryRead of a row (the title of the event is not part of the state)
TrendEntryRead(t) ==
    [ event_id |-> t.event_id, rank |-> t.rank, attendance_count |-> t.attendance_count,
      comments_count |-> t.comments_count, likes_count |-> t.likes_count,
      updated_at |-> t.updated_at ]

\* (a variant of the page that starts at the first row whatever skip is)
PageFromTop(rows, skip, limit) ==
    SubSeq(rows, 1, IF limit < Len(rows) THEN limit ELSE Len(rows))
\* .offset(skip).limit(limit)
Page(rows, skip, limit) ==
    IF skip >= Len(rows) THEN << >>
    ELSE SubSeq(rows, skip + 1, IF skip + limit < Len(rows) THEN skip + limit ELSE Len(rows))

get_trends ==
    \E region \in RegionTokens :
        LET region_id == parse_region_param(region) IN
        /\ IF region_id = InvalidRegion
           THEN last' = [Resp("get_trends", 400, 0, 0, 0, FALSE) EXCEPT !.region = region]
           ELSE \E skip \in SkipInputs, limit \in LimitInputs :
                \E order \in RankOrders(RegionRows(JoinEvent(trends, events), region_id)) :
                   last' = [Resp("get_trends", 200, 0, 0, 0, FALSE)
                            EXCEPT !.region = region, !.skip = skip, !.limit = limit,
                                   !.rows = Page([i \in 1 .. Len(order) |->
                                                     TrendEntryRead(order[i])], skip, limit)]
        /\ UNCHANGED <<users, events, likes, attending, comments, trends>>

\* get_db after a read: the list is sent and the session closed before the
\* next request is taken
get_db_read ==
    /\ last.op = "get_trends"
    /\ last.status = 200
    /\ last' = Other
    /\ UNCHANGED <<users, events, likes, attending, comments, trends>>
    /\ UNCHANGED svars

\* get_db: a refused request (HTTPException) is rolled back, answered and
\* its session closed before the next request is taken
get_db_refused ==
    /\ last.status >= 400
    /\ last' = Other
    /\ UNCHANGED <<users, events, likes, attending, comments, trends>>
    /\ UNCHANGED svars

\* requests are taken one at a time, each a session of its own that is
\* committed and closed before the next
Accepting == last.status < 400 /\ last.op # "get_trends" /\ UNCHANGED svars

Next ==
    \/ get_db_refused
    \/ Accepting /\ create_user
    \/ Accepting /\ delete_user
    \/ Accepting /\ create_event
    \/ Accepting /\ delete_event
    \/ Accepting /\ add_like
    \/ Accepting /\ add_attending
    \/ Accepting /\ add_comment
    \/ Accepting /\ remove_like
    \/ Accepting /\ remove_attending
    \/ Accepting /\ remove_comment
    \/ Accepting /\ rebuild_trends
    \/ Accepting /\ update_trends
    \/ Accepting /\ get_trends
    \/ get_db_read

Spec == Init /\ [][Next]_vars

\* ---- trends.py, two requests side by side ----
\* Each request has a session and a connection of its own.  A statement is
\* one step.  A SELECT sent before the session's first write reads the
\* committed table (the driver opens the transaction at the first INSERT,
\* UPDATE or DELETE); the first write takes the write lock of the database
\* file, which the session keeps until it commits or rolls back; a session
\* that finds the lock taken waits for it, or gives up with
\* "database is locked".  While a session is open no other router writes.
ConcTimes == 0 .. MaxConcTime

Quiet == \A s \in SessIds : sess[s].pc = "idle"

LiveCounts(region_id) ==
    _get_event_interaction_counts(events, attending, comments, likes, region_id)

\* (a variant of the rollback that keeps the writes)
RollbackKeepsWrites(T, P) == P
\* session.rollback(): the committed table stays, the writes P are dropped
rollback(T, P) == T

\* update_trends up to the SELECT of the event's row (lines 140-154)
update_begin(s) ==
    /\ sess[s].pc = "idle"
    /\ \E region \in RegionTokens, event_id \in EventIds :
          LET region_id == parse_region_param(region) IN
          /\ region_id # InvalidRegion
          /\ ~EventNotFound(events, event_id, region_id)
          /\ sess' = [sess EXCEPT ![s] =
                        [ pc |-> "loaded", op |-> "update_trends", region_id |-> region_id,
                          event_id |-> event_id,
                          existing |-> ExistingTrend(trends, region_id, event_id),
                          next_rank |-> 0, wrote |-> FALSE, status |-> 0 ]]
    /\ origin' = (IF Quiet THEN trends ELSE origin)
    /\ UNCHANGED <<users, events, likes, attending, comments, trends, last, lock, pending>>

\* the SELECT of the highest rank, when the event has no row (lines 160-163)
update_max_rank(s) ==
    /\ sess[s].pc = "loaded"
    /\ sess[s].existing = {}
    /\ sess' = [sess EXCEPT ![s].pc = "ranked",
                            ![s].next_rank = NextRank(trends, sess[s].region_id)]
    /\ UNCHANGED <<users, events, likes, attending, comments, trends, last, lock, pending,
                   origin>>

\* the first flush, then the re-read, the sort and the renumbering flush
\* (lines 155-183).  The UPDATE of a row that is gone raises StaleDataError,
\* the INSERT of a pair that is there raises IntegrityError (models.py:135).
update_flush(s) ==
    /\ \/ sess[s].pc = "loaded" /\ sess[s].existing # {}
       \/ sess[s].pc = "ranked"
    /\ lock = 0
    /\ LET me == sess[s]
           cnt == DictGet(LiveCounts(me.region_id), me.event_id)
           refused ==
              IF me.existing # {}
              THEN \A t \in me.existing : t.id \notin TrendIds(trends)
              ELSE ExistingTrend(trends, me.region_id, me.event_id) # {}
       IN IF refused
          THEN /\ sess' = [sess EXCEPT ![s].pc = "done", ![s].status = 500]
               /\ UNCHANGED <<lock, pending>>
          ELSE \E now \in ConcTimes :
                  LET up == Flush(trends, me.region_id, me.event_id, me.existing,
                                  me.next_rank, cnt, now)
                  IN \E rows \in Reorder(up, me.region_id) :
                        /\ pending' = rows
                        /\ lock' = s
                        /\ sess' = [sess EXCEPT ![s].pc = "flushed", ![s].wrote = TRUE]
    /\ UNCHANGED <<users, events, likes, attending, comments, trends, last, origin>>

\* rebuild_trends up to its DELETE (lines 103-117, or 103-111 without events)
rebuild_delete(s) ==
    /\ sess[s].pc = "idle"
    /\ lock = 0
    /\ \E region \in RegionTokens :
          LET region_id == parse_region_param(region) IN
          /\ region_id # InvalidRegion
          /\ pending' = DeleteRegionTrends(trends, region_id)
          /\ sess' = [sess EXCEPT ![s] =
                        [ pc |-> IF LiveCounts(region_id) = <<>> THEN "flushed" ELSE "deleted",
                          op |-> "rebuild_trends", region_id |-> region_id, event_id |-> 0,
                          existing |-> {}, next_rank |-> 0, wrote |-> TRUE, status |-> 0 ]]
    /\ lock' = s
    /\ origin' = (IF Quiet THEN trends ELSE origin)
    /\ UNCHANGED <<users, events, likes, attending, comments, trends, last>>

\* the ranked INSERTs and their flush (lines 118-130)
rebuild_insert(s) ==
    /\ sess[s].pc = "deleted"
    /\ \E now \in ConcTimes :
          pending' = InsertRanked(pending, sess[s].region_id,
                                  SortedEvents(LiveCounts(sess[s].region_id)), now)
    /\ sess' = [sess EXCEPT ![s].pc = "flushed"]
    /\ UNCHANGED <<users, events, likes, attending, comments, trends, last, lock, origin>>

\* get_db after the handler returned: session.commit()
session_commit(s) ==
    /\ sess[s].pc = "flushed"
    /\ trends' = pending
    /\ pending' = {}
    /\ lock' = 0
    /\ sess' = [sess EXCEPT ![s].pc = "done",
                            ![s].status = IF sess[s].op = "rebuild_trends" THEN 201 ELSE 200]
    /\ UNCHANGED <<users, events, likes, attending, comments, last, origin>>

\* get_db when a statement raised: session.rollback().  The session that
\* holds the lock can meet a database error at any statement; a session that
\* waits for the lock can give up.
session_error(s) ==
    /\ \/ sess[s].pc \in {"deleted", "flushed"}
       \/ sess[s].pc \in {"loaded", "ranked"} /\ lock # 0
    /\ trends' = (IF lock = s THEN rollback(trends, pending) ELSE trends)
    /\ pending' = (IF lock = s THEN {} ELSE pending)
    /\ lock' = (IF lock = s THEN 0 ELSE lock)
    /\ sess' = [sess EXCEPT ![s].pc = "done", ![s].status = 500]
    /\ UNCHANGED <<users, events, likes, attending, comments, last, origin>>

\* the responses are out and the sessions closed
sessions_closed ==
    /\ \A s \in SessIds : sess[s].pc \in {"idle", "done"}
    /\ \E s \in SessIds : sess[s].pc = "done"
    /\ sess' = [s \in SessIds |-> NoSession]
    /\ origin' = {}
    /\ UNCHANGED <<users, events, likes, attending, comments, trends, last, lock, pending>>

\* another router's request, between the trends requests
Between == Quiet /\ UNCHANGED svars

NextConc ==
    \/ Between /\ create_user
    \/ Between /\ create_event
    \/ Between /\ add_like
    \/ Between /\ add_comment
    \/ Between /\ remove_like
    \/ Between /\ remove_comment
    \/ \E s \in SessIds : update_begin(s)
    \/ \E s \in SessIds : update_max_rank(s)
    \/ \E s \in SessIds : update_flush(s)
    \/ \E s \in SessIds : rebuild_delete(s)
    \/ \E s \in SessIds : rebuild_insert(s)
    \/ \E s \in SessIds : session_commit(s)
    \/ \E s \in SessIds : session_error(s)
    \/ sessions_closed

SpecConc == Init /\ [][NextConc]_vars

\* ======================= properties =======================
LiveTriple(eid) ==
    << CountFor(attending, eid), CountFor(comments, eid), CountFor(likes, eid) >>
StoredTriple(t) == << t.attendance_count, t.comments_count, t.likes_count >>

\* a is above b in the policy: attendance, then comments, then likes, higher first
Above(a, b) ==
    \/ a[1] > b[1]
    \/ a[1] = b[1] /\ a[2] > b[2]
    \/ a[1] = b[1] /\ a[2] = b[2] /\ a[3] > b[3]

RanksOf(T, region_id) == { t.rank : t \in RegionRows(T, region_id) }
DenseRanks(T, region_id) ==
    /\ RanksOf(T, region_id) = 1 .. Cardinality(RegionRows(T, region_id))
    /\ \A t, u \in RegionRows(T, region_id) : t.rank = u.rank => t = u

Rebuilt == last.op = "rebuild_trends" /\ last.status = 201
Updated == last.op = "update_trends" /\ last.status = 200

\* C1: in every reachable state the ranks stored for a region are exactly
\* 1..N, N the number of its rows, without gap or duplicate.
C1_DenseRanksAlways == DenseRanks(trends, REGION_SAN_DIEGO_ID)

\* C2: after a successful update_trends the ranks of the region are a
\* permutation of 1..N and, of any two rows, the one whose stored
\* (attendance, comments, likes) is greater has the smaller rank.
C2_UpdateRenumbersAll ==
    Updated =>
        /\ DenseRanks(trends, REGION_SAN_DIEGO_ID)
        /\ \A t, u \in RegionRows(trends, REGION_SAN_DIEGO_ID) :
              Above(StoredTriple(t), StoredTriple(u)) => t.rank < u.rank

\* an update that left two rows, the updated one not first, the other one stale
C2_Witness ==
    /\ Updated
    /\ \E t, u \in trends :
          /\ t.event_id = last.event_id /\ u.event_id # last.event_id
          /\ u.rank < t.rank
          /\ Above(StoredTriple(u), StoredTriple(t))
          /\ StoredTriple(u) # LiveTriple(u.event_id)

\* C3: the rows stored by rebuild_trends have ranks 1..N by position and, for
\* adjacent ranks r and r+1, the triple at r is greater than or equal to the
\* triple at r+1 (attendance, then comments, then likes), ties included.
C3_RebuildSorted ==
    Rebuilt =>
        /\ DenseRanks(trends, REGION_SAN_DIEGO_ID)
        /\ \A t, u \in RegionRows(trends, REGION_SAN_DIEGO_ID) :
              u.rank = t.rank + 1 => ~Above(StoredTriple(u), StoredTriple(t))

\* a rebuild where attendance ties and comments decide against more likes
C3_Witness ==
    /\ Rebuilt
    /\ \E t, u \in trends :
          /\ t.rank = 1 /\ u.rank = 2
          /\ t.attendance_count = u.attendance_count
          /\ t.comments_count > u.comments_count
          /\ t.likes_count < u.likes_count

\* C4: after rebuild_trends the events that have a Trend row in the region are
\* exactly the events of the region, those without interaction included, and
\* the returned count is the number of rows stored.
C4_RebuildComplete ==
    Rebuilt =>
        /\ { t.event_id : t \in RegionRows(trends, REGION_SAN_DIEGO_ID) }
              = EventsInRegion(events, REGION_SAN_DIEGO_ID)
        /\ last.count = Cardinality(RegionRows(trends, REGION_SAN_DIEGO_ID))

\* a rebuild over two events, one of them without any interaction
C4_Witness ==
    /\ Rebuilt
    /\ last.count = 2
    /\ \E t, u \in trends :
          /\ StoredTriple(t) = << 0, 0, 0 >>
          /\ StoredTriple(u) # << 0, 0, 0 >>

\* C5: right after rebuild_trends every row carries the live counts of its
\* event; right after update_trends(region, X) the row of X carries X's live
\* counts, (0, 0, 0) when X has no interaction.
C5_SnapshotIsLive ==
    /\ Rebuilt => \A t \in trends : StoredTriple(t) = LiveTriple(t.event_id)
    /\ Updated => \E t \in trends :
                     /\ t.event_id = last.event_id
                     /\ StoredTriple(t) = LiveTriple(t.event_id)

\* an update of a row that existed, whose event has interactions, next to a
\* row whose snapshot is stale
C5_Witness ==
    /\ Updated /\ last.flag
    /\ LiveTriple(last.event_id) # << 0, 0, 0 >>
    /\ \E u \in trends : StoredTriple(u) # LiveTriple(u.event_id)

\* what rebuild idempotence compares: everything but id and updated_at
Stored(T) ==
    { << t.region_id, t.event_id, t.rank, t.attendance_count, t.comments_count,
         t.likes_count >> : t \in T }

\* C6: a rebuild_trends that directly follows a rebuild_trends, nothing having
\* changed in between, stores the same rows (event, rank, counts) again, as
\* many as before, tied events in the same order.
C6_RebuildIdempotent ==
    [][ (Rebuilt /\ last'.op = "rebuild_trends" /\ last'.status = 201)
           => /\ Stored(trends') = Stored(trends)
              /\ Cardinality(trends') = Cardinality(trends) ]_vars

\* a second rebuild in a row over two events whose counts tie
C6_Witness ==
    /\ Rebuilt /\ last.flag
    /\ \E t, u \in trends : t # u /\ StoredTriple(t) = StoredTriple(u)

UniquePairs(T) ==
    \A t, u \in T : (t.region_id = u.region_id /\ t.event_id = u.event_id) => t = u

\* C7: there is never more than one Trend row per (region, event); an
\* update_trends of an event that has a row keeps that very row (same id),
\* gives it the live counts and the request's timestamp, and adds no row.
C7_OneRowPerPair ==
    /\ [] UniquePairs(trends)
    /\ [][ (last'.op = "update_trends" /\ last'.status = 200) =>
             \A r \in ExistingTrend(trends, REGION_SAN_DIEGO_ID, last'.event_id) :
                /\ Cardinality(trends') = Cardinality(trends)
                /\ \E t \in trends' :
                      /\ t.id = r.id /\ t.event_id = r.event_id
                      /\ StoredTriple(t) = LiveTriple(r.event_id)
                      /\ t.updated_at = last'.now ]_vars

\* an update of an existing row that changed its counts and its timestamp
C7_Witness ==
    /\ Updated /\ last.flag
    /\ Cardinality(trends) = 2
    /\ \E t \in trends :
          /\ t.event_id = last.event_id
          /\ \E u \in trends : u # t /\ u.updated_at # t.updated_at
          /\ StoredTriple(t) # << 0, 0, 0 >>

Alone(T, s) ==
    LET me == sess[s] IN
    IF me.op = "update_trends"
    THEN UNION { Reorder(Upsert(T, me.region_id, me.event_id,
                                DictGet(LiveCounts(me.region_id), me.event_id), now),
                         me.region_id) : now \in ConcTimes }
    ELSE { RebuildRows(T, LiveCounts(me.region_id), me.region_id, now) : now \in ConcTimes }

\* the tables the requests of S leave when they run one after the other
RECURSIVE OneAfterTheOther(_, _)
OneAfterTheOther(T, S) ==
    IF S = {} THEN { T }
    ELSE UNION { UNION { OneAfterTheOther(T1, S \ {s}) : T1 \in Alone(T, s) } : s \in S }

Committed(s) == sess[s].pc = "done" /\ sess[s].status \in {200, 201}
AllAnswered ==
    /\ \A s \in SessIds : sess[s].pc \in {"idle", "done"}
    /\ \E s \in SessIds : sess[s].pc = "done"

\* C8: when requests on one region overlap, the rows stored once all of them
\* are answered (event, rank and counts of each row) are rows that the
\* committed requests leave when run one after the other in some order from
\* the rows stored before the first of them.
C8_Serialised ==
    AllAnswered =>
        Stored(trends) \in
            { Stored(T) : T \in OneAfterTheOther(origin, { s \in SessIds : Committed(s) }) }

\* C9: a rebuild_trends request changes the committed rows in one step, its
\* commit, and then to the full new list of the region; every other step of
\* the request, its DELETE, its INSERTs and the rollback after a failure,
\* leaves the committed rows as they were.
C9_RebuildAllOrNothing ==
    [][ \A s \in SessIds :
          (sess'[s] # sess[s] /\ sess'[s].op = "rebuild_trends") =>
             IF sess'[s].pc = "done" /\ sess'[s].status = 201
             THEN /\ trends' \in { RebuildRows(trends, LiveCounts(sess[s].region_id),
                                               sess[s].region_id, now) : now \in ConcTimes }
                  /\ { t.event_id : t \in trends' }
                        = EventsInRegion(events, sess[s].region_id)
             ELSE trends' = trends ]_vars

\* a rebuild_trends that failed after its DELETE, the old rows still stored
C9_Witness ==
    \E s \in SessIds :
        /\ sess[s].op = "rebuild_trends" /\ sess[s].pc = "done" /\ sess[s].status = 500
        /\ sess[s].wrote
        /\ Cardinality(trends) = 2
        /\ \E t \in trends : StoredTriple(t) # LiveTriple(t.event_id)

\* the requests of trends.py
TrendOps == { "rebuild_trends", "update_trends", "get_trends" }

\* the tokens among RegionTokens that name the one region: 'san diego' or
\* 'san-diego' in any case with blanks around it, '0', or the integer 0
CanonicalTokens ==
    { Chars(<<" ", "S", "a", "n", "-", "D", "i", "e", "g", "o", " ">>) }

\* C11: a trends request (rebuild_trends, update_trends, get_trends) is
\* answered 400 exactly when its region token does not name the region, and a
\* request answered 400 leaves every table, the Trend rows included, as it was.
C11_InvalidRegion400 ==
    [][ last'.op \in TrendOps =>
          /\ (last'.status = 400) = (last'.region \notin CanonicalTokens)
          /\ last'.status = 400 =>
                /\ trends' = trends
                /\ UNCHANGED <<users, events, likes, attending, comments>> ]_vars

\* get_trends refused with 400 while the region has two Trend rows
C11_Witness ==
    /\ last.op = "get_trends" /\ last.status = 400
    /\ last.region \notin CanonicalTokens
    /\ Cardinality(trends) = 2

\* ---- rebuild_trends over a list whose events are gone ----
\* The requests above never leave a Trend row without its event (C18): rows of
\* that kind are rows a database file carries over from a connection that did
\* not enforce foreign keys (database.py:18-23 sets the pragma per connection
\* of this engine).  StaleLists are such lists: a row for one event id, or a
\* row for each of the ids 1 and 2, any rank, any snapshot, no event stored.
StaleRows ==
    { TrendRow(eid, REGION_SAN_DIEGO_ID, eid, rank, att, 0, lik, at)
      : eid \in EventIds, rank \in 1 .. MaxEvents, att \in 0 .. 1, lik \in 0 .. 1,
        at \in Times }

StaleLists ==
    { {r} : r \in StaleRows }
    \cup { {r, q} : r \in { x \in StaleRows : x.event_id = 1 },
                   q \in { x \in StaleRows : x.event_id = 2 } }

InitStale ==
    /\ users = {}
    /\ events = {}
    /\ likes = {}
    /\ attending = {}
    /\ comments = {}
    /\ trends \in StaleLists
    /\ last = Other
    /\ sess = [s \in SessIds |-> NoSession]
    /\ lock = 0
    /\ pending = {}
    /\ origin = {}

NextStale ==
    \/ get_db_refused
    \/ Accepting /\ rebuild_trends

SpecStale == InitStale /\ [][NextStale]_vars

\* C12: a rebuild_trends of a region without events answers 201 with count 0
\* and leaves no Trend row of the region, whatever rows were stored before.
C12_RebuildWithoutEvents ==
    [][ ( /\ last'.op = "rebuild_trends" /\ last'.status = 201
          /\ EventsInRegion(events, REGION_SAN_DIEGO_ID) = {} )
        => /\ RegionRows(trends', REGION_SAN_DIEGO_ID) = {}
           /\ last'.count = 0 ]_vars

\* the first rebuild_trends of a run that began with a stale list: count 0,
\* no row left
C12_Witness ==
    /\ Rebuilt /\ ~last.flag
    /\ last.count = 0
    /\ events = {}
    /\ trends = {}

RowCount(T) == Cardinality(RegionRows(T, REGION_SAN_DIEGO_ID))

\* C14 as stated: a step that leaves the region with fewer Trend rows than it
\* had is a rebuild_trends.
C14_OnlyRebuildShrinks ==
    [][ RowCount(trends') < RowCount(trends) => last'.op = "rebuild_trends" ]_vars

\* C14, amended: a step that leaves the region with fewer Trend rows than it
\* had is a rebuild_trends or a step that deleted events (delete_event,
\* delete_user), and a deletion removes the rows of the deleted events and no
\* other; update_trends and the interaction requests never remove a row.
C14_ShrinkByRebuildOrDeletion ==
    [][ RowCount(trends') < RowCount(trends) =>
          \/ last'.op = "rebuild_trends" /\ last'.status = 201
          \/ /\ EventIdsOf(events') # EventIdsOf(events)
             /\ EventIdsOf(events') \subseteq EventIdsOf(events)
             /\ trends' = WithoutEvents(trends, EventIdsOf(events) \ EventIdsOf(events')) ]_vars

\* a deletion has removed the row of rank 1 and left the row of rank 2
C14_Witness ==
    /\ last = Other
    /\ Cardinality(events) = 1
    /\ \E t \in trends : trends = {t} /\ t.rank = 2 /\ t.event_id \in EventIdsOf(events)

\* a row without its rank
Unranked(t) == [t EXCEPT !.rank = 0]

\* C15: a successful update_trends for event X leaves every row of another
\* event as it was but for its rank: same row, same snapshot counts, stale or
\* not, same updated_at; and it adds no row of another event.
C15_OtherRowsKeepSnapshot ==
    [][ (last'.op = "update_trends" /\ last'.status = 200) =>
          { Unranked(t) : t \in { r \in trends' : r.event_id # last'.event_id } }
            = { Unranked(t) : t \in { r \in trends : r.event_id # last'.event_id } } ]_vars

\* after an update_trends, below the updated row, a row created before it
\* whose snapshot is stale and whose updated_at is not the clock of the update
C15_Witness ==
    /\ Updated
    /\ \E t, u \in trends :
          /\ t.event_id = last.event_id /\ u.event_id # last.event_id
          /\ t.rank < u.rank /\ u.id < t.id
          /\ StoredTriple(u) # LiveTriple(u.event_id)
          /\ u.updated_at # last.now

\* C16: a step that adds or removes a like, a comment or an attendance mark,
\* no event being deleted, leaves every Trend row as it was.
C16_InteractionsLeaveTrends ==
    [][ (<<likes, attending, comments>>' # <<likes, attending, comments>> /\ events' = events)
          => trends' = trends ]_vars

\* interactions were written after the last trends request and every event
\* has its row, one of them with a snapshot that is not the live count
C16_Witness ==
    /\ last = Other
    /\ trends # {}
    /\ { t.event_id : t \in trends } = EventIdsOf(events)
    /\ DenseRanks(trends, REGION_SAN_DIEGO_ID)
    /\ \E t \in trends : Above(LiveTriple(t.event_id), StoredTriple(t))

\* C17: a step that ends in a response of rebuild_trends or update_trends,
\* whatever its status, leaves the users, the events, the likes, the
\* attendance marks and the comments as they were.
C17_TrendWritesLeaveRecords ==
    [][ last'.op \in {"rebuild_trends", "update_trends"}
          => UNCHANGED <<users, events, likes, attending, comments>> ]_vars

\* a rebuild_trends that ranked two events and counted a like and a comment
\* or attendance mark, all still stored
C17_Witness ==
    /\ Rebuilt /\ last.count = 2
    /\ Cardinality(events) = 2
    /\ likes # {}
    /\ attending \cup comments # {}
    /\ \A t \in trends : StoredTriple(t) = LiveTriple(t.event_id)

\* C18: every Trend row references a stored event of the row's region, and
\* every like, attendance mark and comment references a stored event: the
\* deletion of an event, directly or with its author, leaves no record of it.
C18_RowsReferenceEvents ==
    /\ \A t \in trends : \E e \in events : e.id = t.event_id /\ e.region_id = t.region_id
    /\ \A r \in likes \cup attending \cup comments : r.event_id \in EventIdsOf(events)

\* one of two ranked events was deleted: the event left holds rank 2 alone
\* and every interaction stored is its own
C18_Witness ==
    /\ \E e \in events, t \in trends :
          /\ events = {e} /\ trends = {t}
          /\ t.event_id = e.id /\ t.rank = 2
          /\ likes \cup attending \cup comments # {}
          /\ \A r \in likes \cup attending \cup comments : r.event_id = e.id

GotTrends == last.op = "get_trends" /\ last.status = 200

\* the rows of the region stored at a rank lower than t's
RowsBefore(T, t) == { u \in RegionRows(T, t.region_id) : u.rank < t.rank }

\* C19: a successful get_trends(region, skip, limit) changes nothing stored
\* and returns min(limit, N - skip) entries (none when skip >= N) of the N rows
\* stored for the region: the k-th entry returned is the stored row that has
\* skip + k - 1 rows before it by rank, with its stored rank, counts and
\* updated_at.
C19_ReadPage ==
    [][ (last'.op = "get_trends" /\ last'.status = 200) =>
          LET rows == last'.rows
              N == RowCount(trends)
              left == IF N > last'.skip THEN N - last'.skip ELSE 0
          IN /\ UNCHANGED <<users, events, likes, attending, comments, trends>>
             /\ Len(rows) = (IF last'.limit < left THEN last'.limit ELSE left)
             /\ \A k \in 1 .. Len(rows) :
                   \E t \in RegionRows(trends, REGION_SAN_DIEGO_ID) :
                      /\ rows[k] = TrendEntryRead(t)
                      /\ Cardinality(RowsBefore(trends, t)) = last'.skip + k - 1
             /\ \A k \in 1 .. Len(rows) - 1 : rows[k].rank < rows[k + 1].rank ]_vars

\* a page that skipped the first of two rows and returned the second, whose
\* snapshot is not the live count
C19_Witness ==
    /\ GotTrends /\ last.skip = 1
    /\ Cardinality(trends) = 2
    /\ Len(last.rows) = 1
    /\ \E t \in trends :
          /\ last.rows[1] = TrendEntryRead(t)
          /\ t.rank = 2
          /\ StoredTriple(t) # LiveTriple(t.event_id)

\* the records of S that belong to event eid
RecordsOf(S, eid) == { r \in S : r.event_id = eid }

\* C20: in every reachable state the mapping _get_event_interaction_counts
\* gives for the region has one item for each event of the region and no
\* other, with the number of attendance marks, of comments and of likes stored
\* for that event, 0 where there is none; it is empty when the region has no
\* event, as it is for a region without events beside it.
C20_CountsOfRegion ==
    LET counts == _get_event_interaction_counts(events, attending, comments, likes,
                                                REGION_SAN_DIEGO_ID)
        inRegion == { e.id : e \in { x \in events : x.region_id = REGION_SAN_DIEGO_ID } }
    IN /\ { counts[i][1] : i \in 1 .. Len(counts) } = inRegion
       /\ Len(counts) = Cardinality(inRegion)
       /\ \A i \in 1 .. Len(counts) :
             /\ counts[i][2] = Cardinality(RecordsOf(attending, counts[i][1]))
             /\ counts[i][3] = Cardinality(RecordsOf(comments, counts[i][1]))
             /\ counts[i][4] = Cardinality(RecordsOf(likes, counts[i][1]))
       /\ inRegion = {} => counts = << >>
       /\ _get_event_interaction_counts(events, attending, comments, likes,
                                        REGION_SAN_DIEGO_ID + 1) = << >>

\* a rebuild_trends that counted two comments of one user for one event, and
\* nothing for the other event
C20_Witness ==
    /\ Rebuilt /\ last.count = 2
    /\ Cardinality(users) = 1
    /\ \E t, u \in trends :
          /\ StoredTriple(t) = << 0, 2, 0 >> /\ RecordsOf(comments, t.event_id) = comments
          /\ StoredTriple(u) = << 0, 0, 0 >> /\ u.event_id # t.event_id

\* ---- interactions.py, two add requests side by side ----
\* In this specification the rows of event_likes and event_attending carry
\* their primary key, so that two rows of one (user, event) pair are two rows.
MaxPairId == 3

PairRow(id, user_id, event_id) == [id |-> id, user_id |-> user_id, event_id |-> event_id]

\* select(EventLike).where(event_id == ..., user_id == ...)
PairRowsOf(S, event_id, user_id) ==
    { r \in S : r.event_id = event_id /\ r.user_id = user_id }

\* (a variant of the table without its UNIQUE constraint)
NoUniqueConstraint(S, event_id, user_id) == FALSE
\* UniqueConstraint("user_id", "event_id"): the INSERT of a pair that has a row
\* raises IntegrityError
UniqueViolation(S, event_id, user_id) == PairRowsOf(S, event_id, user_id) # {}

\* db.add(EventLike(event_id, user_id)); flush
InsertPair(S, event_id, user_id) ==
    S \cup { PairRow(NextId({ r.id : r \in S }, 1), user_id, event_id) }

AddOps == {"add_like", "add_attending"}

\* a session of add_like or add_attending: pc is the statement it has reached
NoPairSession == [ pc |-> "idle", op |-> "none", event_id |-> 0, user_id |-> 0, status |-> 0 ]

PairTable(op) == IF op = "add_like" THEN likes ELSE attending

InitPairs ==
    /\ users = {}
    /\ events = {}
    /\ likes = {}
    /\ attending = {}
    /\ comments = {}
    /\ trends = {}
    /\ last = Other
    /\ sess = [s \in SessIds |-> NoPairSession]
    /\ lock = 0
    /\ pending = {}
    /\ origin = {}

\* add_like / add_attending up to the SELECT of the pair: 404 without the
\* event, success at once when the pair has a row
pair_begin(s) ==
    /\ sess[s].pc = "idle"
    /\ \E op \in AddOps, event_id \in EventIds, user_id \in UserIds :
          LET existing == PairRowsOf(PairTable(op), event_id, user_id)
              answer == IF event_id \notin EventIdsOf(events) THEN << "done", 404 >>
                        ELSE IF existing # {} THEN << "done", 200 >>
                        ELSE << "selected", 0 >>
          IN sess' = [sess EXCEPT ![s] = [ pc |-> answer[1], op |-> op, event_id |-> event_id,
                                           user_id |-> user_id, status |-> answer[2] ]]
    /\ UNCHANGED <<users, events, likes, attending, comments, trends, last, lock, pending,
                   origin>>

\* db.add and flush: the INSERT takes the write lock; it raises IntegrityError
\* for an unknown user (foreign key) and for a pair that has a row by now
pair_flush(s) ==
    /\ sess[s].pc = "selected"
    /\ lock = 0
    /\ LET me == sess[s]
           table == PairTable(me.op)
       IN IF \/ me.user_id \notin UserIdsOf(users)
             \/ me.event_id \notin EventIdsOf(events)
             \/ UniqueViolation(table, me.event_id, me.user_id)
          THEN /\ sess' = [sess EXCEPT ![s].pc = "done", ![s].status = 500]
               /\ UNCHANGED <<lock, pending>>
          ELSE /\ NextId({ r.id : r \in table }, 1) <= MaxPairId
               /\ pending' = InsertPair(table, me.event_id, me.user_id)
               /\ lock' = s
               /\ sess' = [sess EXCEPT ![s].pc = "flushed"]
    /\ UNCHANGED <<users, events, likes, attending, comments, trends, last, origin>>

\* get_db after the handler returned: session.commit()
pair_commit(s) ==
    /\ sess[s].pc = "flushed"
    /\ lock = s
    /\ IF sess[s].op = "add_like"
       THEN likes' = pending /\ UNCHANGED attending
       ELSE attending' = pending /\ UNCHANGED likes
    /\ pending' = {}
    /\ lock' = 0
    /\ sess' = [sess EXCEPT ![s].pc = "done", ![s].status = 200]
    /\ UNCHANGED <<users, events, comments, trends, last, origin>>

\* get_db when a statement raised: session.rollback().  The session that
\* holds the lock can meet a database error at its commit; a session that
\* waits for the lock can give up.
pair_error(s) ==
    /\ \/ sess[s].pc = "flushed"
       \/ sess[s].pc = "selected" /\ lock # 0
    /\ pending' = (IF lock = s THEN {} ELSE pending)
    /\ lock' = (IF lock = s THEN 0 ELSE lock)
    /\ sess' = [sess EXCEPT ![s].pc = "done", ![s].status = 500]
    /\ UNCHANGED <<users, events, likes, attending, comments, trends, last, origin>>

\* the responses are out and the sessions closed
pairs_closed ==
    /\ \A s \in SessIds : sess[s].pc \in {"idle", "done"}
    /\ \E s \in SessIds : sess[s].pc = "done"
    /\ sess' = [s \in SessIds |-> NoPairSession]
    /\ UNCHANGED <<users, events, likes, attending, comments, trends, last, lock, pending,
                   origin>>

\* remove_like / remove_attending running alone: 404 without a row of the
\* pair, else the DELETE of the row the SELECT returned
RemovePairRow(S, event_id, user_id) ==
    LET found == PairRowsOf(S, event_id, user_id) IN
    IF found = {} THEN S ELSE S \ { CHOOSE r \in found : TRUE }

remove_like_row ==
    /\ \E event_id \in EventIds, user_id \in UserIds :
          likes' = RemovePairRow(likes, event_id, user_id)
    /\ UNCHANGED <<users, events, attending, comments, trends, last>>

remove_attending_row ==
    /\ \E event_id \in EventIds, user_id \in UserIds :
          attending' = RemovePairRow(attending, event_id, user_id)
    /\ UNCHANGED <<users, events, likes, comments, trends, last>>

NextPairs ==
    \/ Between /\ create_user
    \/ Between /\ create_event
    \/ Between /\ remove_like_row
    \/ Between /\ remove_attending_row
    \/ \E s \in SessIds : pair_begin(s)
    \/ \E s \in SessIds : pair_flush(s)
    \/ \E s \in SessIds : pair_commit(s)
    \/ \E s \in SessIds : pair_error(s)
    \/ pairs_closed

SpecPairs == InitPairs /\ [][NextPairs]_vars

UniquePairRows(S) ==
    \A r, q \in S : (r.user_id = q.user_id /\ r.event_id = q.event_id) => r = q

\* C21: the committed likes and the committed attendance marks hold at most
\* one row per (user, event) pair in every state, two add requests for one
\* pair running side by side included; an add request that finds the pair's
\* row answers 200 at once and writes nothing; a step that removes a like or an
\* attendance mark removes one row, the only row of its pair.
C21_OnePerPair ==
    /\ [](UniquePairRows(likes) /\ UniquePairRows(attending))
    /\ [][ \A s \in SessIds :
             ( /\ sess[s].pc = "idle" /\ sess'[s].pc # "idle"
               /\ PairRowsOf(PairTable(sess'[s].op), sess'[s].event_id, sess'[s].user_id) # {} )
             => /\ sess'[s].pc = "done" /\ sess'[s].status = 200
                /\ UNCHANGED <<likes, attending, pending>> ]_vars
    /\ [][ \A S \in { <<likes, likes'>>, <<attending, attending'>> } :
             (S[1] \ S[2] # {}) =>
                \E r \in S[1] : /\ S[2] = S[1] \ {r}
                                /\ PairRowsOf(S[2], r.event_id, r.user_id) = {} ]_vars

\* two add requests for one pair ran side by side: one answered 200, the
\* other 500, and the pair has its one row
C21_Witness ==
    /\ sess[1].pc = "done" /\ sess[2].pc = "done"
    /\ sess[1].op \in AddOps /\ sess[1].op = sess[2].op
    /\ sess[1].event_id = sess[2].event_id /\ sess[1].user_id = sess[2].user_id
    /\ { sess[1].status, sess[2].status } = {200, 500}
    /\ Cardinality(PairRowsOf(PairTable(sess[1].op), sess[1].event_id, sess[1].user_id)) = 1

\* ---- interactions.py, the answers of remove_comment ----
\* the user_id of a request is any integer: one more than the stored users
RequestUserIds == 0 .. MaxUsers

\* (a variant without the check of the author)
RemoveCommentOfAnyone(C, event_id, comment_id, user_id) ==
    LET found == { c \in C : c.id = comment_id } IN
    IF found = {} \/ (\E c \in found : c.event_id # event_id)
    THEN [status |-> 404, rows |-> C]
    ELSE [status |-> 200, rows |-> C \ found]
\* db.get(EventComment, comment_id); 404 when it is missing or of another
\* event, 403 when its user_id is not the request's, else the DELETE
RemoveComment(C, event_id, comment_id, user_id) ==
    LET found == { c \in C : c.id = comment_id } IN
    IF found = {} \/ (\E c \in found : c.event_id # event_id)
    THEN [status |-> 404, rows |-> C]
    ELSE IF \E c \in found : c.user_id # user_id
    THEN [status |-> 403, rows |-> C]
    ELSE [status |-> 200, rows |-> C \ found]

\* the response of a remove_comment request
CommentResp(status, event_id, comment_id, user_id) ==
    [ op |-> "remove_comment", status |-> status, event_id |-> event_id,
      comment_id |-> comment_id, user_id |-> user_id ]

\* DELETE /events/{event_id}/comments/{comment_id}, its response recorded
remove_comment_request ==
    \E event_id \in EventIds, comment_id \in 1 .. MaxInter, user_id \in RequestUserIds :
        LET r == RemoveComment(comments, event_id, comment_id, user_id) IN
        /\ comments' = r.rows
        /\ last' = CommentResp(r.status, event_id, comment_id, user_id)
        /\ UNCHANGED <<users, events, likes, attending, trends>>

NextComments ==
    \/ get_db_refused
    \/ Accepting /\ create_user
    \/ Accepting /\ create_event
    \/ Accepting /\ add_comment
    \/ Accepting /\ remove_comment_request

SpecComments == Init /\ [][NextComments]_vars

\* C22: a remove_comment request removes a comment only when the comment of
\* that id is of the given event and of the requesting user, and then removes
\* that comment alone and answers 200; for a comment of the event written by
\* another user it answers 403, for an unknown comment or a comment of another
\* event 404, and then the comments stay as they were.
C22_OnlyAuthorRemoves ==
    [][ last'.op = "remove_comment" =>
          LET theirs == { c \in comments : c.id = last'.comment_id /\ c.event_id = last'.event_id }
              own == { c \in theirs : c.user_id = last'.user_id }
          IN /\ comments' = comments \ own
             /\ Cardinality(own) <= 1
             /\ last'.status = (IF own # {} THEN 200 ELSE IF theirs # {} THEN 403 ELSE 404) ]_vars

\* a user holds two comments on one event, and a request of another user to
\* remove one of them was answered 403
C22_Witness ==
    /\ last.op = "remove_comment" /\ last.status = 403
    /\ \E c, d \in comments :
          /\ c.id # d.id /\ c.user_id = d.user_id /\ c.event_id = d.event_id
          /\ c.id = last.comment_id /\ c.user_id # last.user_id

\* ---- region_map.py, parse_region_param over a set of tokens ----
UpperOf(c) ==
    CASE c = "s" -> "S" [] c = "a" -> "A" [] c = "n" -> "N" [] c = "d" -> "D"
      [] c = "i" -> "I" [] c = "e" -> "E" [] c = "g" -> "G" [] c = "o" -> "O"
      [] OTHER -> c

\* a string in every mix of upper and lower case
CaseVariants(s) ==
    { [i \in 1 .. Len(s) |-> IF i \in U THEN UpperOf(s[i]) ELSE s[i]]
      : U \in SUBSET (1 .. Len(s)) }

\* the whitespace around a token: none, a blank, a tab, a blank and a tab
Pads == { << >>, << " " >>, << "\t" >>, << " ", "\t" >> }

\* VALID_REGION_STRINGS and "0"
ValidBodies ==
    CaseVariants(<< "s", "a", "n", " ", "d", "i", "e", "g", "o" >>)
      \cup CaseVariants(<< "s", "a", "n", "-", "d", "i", "e", "g", "o" >>)
      \cup { << "0" >> }

\* strings close to the valid ones
OtherBodies ==
    { << >>, << "l", "a" >>, << "1" >>, << "0", "0" >>, << "0", " ", "0" >>, << "-", "0" >>,
      << "o" >>,
      << "s", "a", "n", "d", "i", "e", "g", "o" >>,
      << "s", "a", "n", " ", " ", "d", "i", "e", "g", "o" >>,
      << "s", "a", "n", "\t", "d", "i", "e", "g", "o" >>,
      << "s", "a", "n", "_", "d", "i", "e", "g", "o" >>,
      << "s", "a", "n", "-", "-", "d", "i", "e", "g", "o" >>,
      << "s", "a", "n", " ", "d", "i", "e", "g" >>,
      << "s", "a", "n", " ", "d", "i", "e", "g", "o", "0" >>,
      << "s", " ", "a", "n", " ", "d", "i", "e", "g", "o" >>,
      << "S", "A", "N", " ", "D", "I", "E", "G", "O", "S" >>,
      << "-", "s", "a", "n", " ", "d", "i", "e", "g", "o" >> }

Padded(B) == { Chars(l \o b \o r) : l \in Pads, b \in B, r \in Pads }

IntTokens == { << "int", n >> : n \in -2 .. 2 }

ParseTokens == Padded(ValidBodies) \cup Padded(OtherBodies) \cup IntTokens

\* a request that carries a region token, before the handler has parsed it
ParseCall(value) == [ op |-> "region", status |-> 0, region |-> value, region_id |-> 0 ]

InitParse ==
    /\ users = {}
    /\ events = {}
    /\ likes = {}
    /\ attending = {}
    /\ comments = {}
    /\ trends = {}
    /\ last \in { ParseCall(value) : value \in ParseTokens }
    /\ sess = [s \in SessIds |-> NoSession]
    /\ lock = 0
    /\ pending = {}
    /\ origin = {}

\* region_id = parse_region_param(region); a ValueError becomes the 400
parse_request ==
    /\ last.op = "region"
    /\ LET region_id == parse_region_param(last.region) IN
       last' = [last EXCEPT !.op = "parse_region_param", !.region_id = region_id,
                            !.status = IF region_id = InvalidRegion THEN 400 ELSE 200]
    /\ UNCHANGED <<users, events, likes, attending, comments, trends>>
    /\ UNCHANGED svars

NextParse == parse_request

SpecParse == InitParse /\ [][NextParse]_vars

\* the tokens the specification accepts
AcceptedTokens == Padded(ValidBodies) \cup { << "int", 0 >> }

\* C23: parse_region_param gives region id 0 for the integer 0 and for
\* 'san diego', 'san-diego' and '0' in any letter case and between any
\* whitespace; it raises for every other string and integer, and it gives no
\* id other than 0.
C23_ParseRegion ==
    last.op = "parse_region_param" =>
        /\ last.region \in AcceptedTokens => last.region_id = REGION_SAN_DIEGO_ID
        /\ last.region \notin AcceptedTokens =>
              last.region_id = InvalidRegion /\ last.status = 400
        /\ last.region_id \in { REGION_SAN_DIEGO_ID, InvalidRegion }

\* the token "\tSAN-diego " was parsed to region 0
C23_Witness ==
    /\ last.op = "parse_region_param"
    /\ last.region = Chars(<< "\t", "S", "A", "N", "-", "d", "i", "e", "g", "o", " " >>)
    /\ last.region_id = REGION_SAN_DIEGO_ID

\* both sessions run update_trends, for two different events, and neither
\* found a Trend row of its event
TwoNewEvents ==
    /\ \A s \in SessIds : sess[s].op = "update_trends" /\ sess[s].existing = {}
    /\ sess[1].event_id # sess[2].event_id

\* C24: while and after two update_trends requests for two different events
\* without a Trend row run side by side, each at any of its statements, the
\* committed rows of the region have the ranks 1..N, no rank twice.
C24_TwoInsertsDense ==
    TwoNewEvents => DenseRanks(trends, REGION_SAN_DIEGO_ID)

\* both requests read the highest rank before either wrote, and both are
\* committed: the two rows hold ranks 1 and 2
C24_Witness ==
    /\ TwoNewEvents
    /\ \A s \in SessIds : Committed(s) /\ sess[s].next_rank = 1
    /\ Cardinality(trends) = 2
    /\ RanksOf(trends, REGION_SAN_DIEGO_ID) = {1, 2}

\* every event of the region has a Trend row and its snapshot is the live count
AllFresh(T) ==
    \A e \in EventsInRegion(events, REGION_SAN_DIEGO_ID) :
       \E t \in RegionRows(T, REGION_SAN_DIEGO_ID) :
          t.event_id = e /\ StoredTriple(t) = LiveTriple(e)

\* the rank of event e in T
RankOfEvent(T, e) == (CHOOSE t \in T : t.event_id = e).rank

\* e is ranked before f in T
Before(T, e, f) == RankOfEvent(T, e) < RankOfEvent(T, f)

\* the rows rebuild_trends would store from the data of the state
WouldRebuild(now) ==
    RebuildRows(trends, LiveCounts(REGION_SAN_DIEGO_ID), REGION_SAN_DIEGO_ID, now)

\* C25 as stated: an update_trends that runs when all rows are fresh leaves
\* every event at the rank rebuild_trends would give it.
C25_UpdateRanksAsRebuild ==
    [][ (last'.op = "update_trends" /\ last'.status = 200 /\ AllFresh(trends)) =>
          \A e \in EventsInRegion(events, REGION_SAN_DIEGO_ID) :
             RankOfEvent(trends', e) = RankOfEvent(WouldRebuild(last'.now), e) ]_vars

\* C25, amended: an update_trends that runs when all rows are fresh orders any
\* two events whose counts differ as rebuild_trends would; of two events whose
\* three counts tie, rebuild_trends puts the lower event id first and
\* update_trends the one that was first before the call.
C25_SameOrderButTies ==
    [][ (last'.op = "update_trends" /\ last'.status = 200 /\ AllFresh(trends)) =>
          LET R == WouldRebuild(last'.now) IN
          \A e, f \in EventsInRegion(events, REGION_SAN_DIEGO_ID) :
             e # f =>
               IF LiveTriple(e) # LiveTriple(f)
               THEN /\ Before(trends', e, f) = Before(R, e, f)
                    /\ Before(R, e, f) = Above(LiveTriple(e), LiveTriple(f))
               ELSE /\ Before(R, e, f) = (e < f)
                    /\ Before(trends', e, f) = Before(trends, e, f) ]_vars

\* after an update_trends of an event that had its row: all rows fresh, the
\* two events tied, and the higher event id ranked first
C25_Witness ==
    /\ Updated /\ last.flag
    /\ AllFresh(trends)
    /\ \E t, u \in trends :
          /\ t.rank = 1 /\ u.rank = 2
          /\ StoredTriple(t) = StoredTriple(u)
          /\ t.event_id > u.event_id

\* the rows of T for the events of rows t and u
PriorRows(T, t) == { r \in RegionRows(T, t.region_id) : r.event_id = t.event_id }

\* C26: after a successful update_trends, of two rows whose stored counts are
\* equal and which both existed before the call, the one that had the lower
\* rank before has the lower rank after; and a row the call inserted has a
\* higher rank than every row it ties with.
C26_TiesKeepOrder ==
    [][ (last'.op = "update_trends" /\ last'.status = 200) =>
          \A t, u \in RegionRows(trends', REGION_SAN_DIEGO_ID) :
             (t # u /\ StoredTriple(t) = StoredTriple(u)) =>
                /\ \A p \in PriorRows(trends, t), q \in PriorRows(trends, u) :
                      (p.rank < q.rank) = (t.rank < u.rank)
                /\ (PriorRows(trends, t) = {} /\ PriorRows(trends, u) # {}) => u.rank < t.rank ]_vars

\* an update_trends inserted the row of the event with the lower id, which
\* ties with the row that was there and is ranked below it
C26_Witness ==
    /\ Updated /\ ~last.flag
    /\ \E t, u \in trends :
          /\ t.event_id = last.event_id /\ u.event_id > t.event_id
          /\ StoredTriple(t) = StoredTriple(u)
          /\ u.rank = 1 /\ t.rank = 2

\* C27: a successful update_trends for event X leaves the region with the
\* rows of the events that had one and of X, of no other event: one row more
\* when X had none, as many as before when X had one.
C27_UpdateAddsOneRow ==
    [][ (last'.op = "update_trends" /\ last'.status = 200) =>
          LET before == RegionRows(trends, REGION_SAN_DIEGO_ID)
              after == RegionRows(trends', REGION_SAN_DIEGO_ID)
              had == \E t \in before : t.event_id = last'.event_id
          IN /\ { t.event_id : t \in after } = { t.event_id : t \in before } \cup { last'.event_id }
             /\ Cardinality(after) = Cardinality(before) + (IF had THEN 0 ELSE 1)
             /\ last'.flag = had ]_vars

\* an update_trends inserted the only row of the region, and the other event,
\* which has interactions, has none
C27_Witness ==
    /\ Updated /\ ~last.flag
    /\ \E t \in trends : trends = {t} /\ t.event_id = last.event_id
    /\ \E e \in EventsInRegion(events, REGION_SAN_DIEGO_ID) :
          e # last.event_id /\ LiveTriple(e) # << 0, 0, 0 >>

====
